---- MODULE Spec2Model ----
(***************************************************************************)
(* BullPen server: the in-memory caches of the data endpoints and the      *)
(* fetch / store / fall-back decision each request handler makes.          *)
(*                                                                         *)
(* A request is handled in two steps, as in the JavaScript: the            *)
(* synchronous prefix up to the first await (validation, configuration,    *)
(* cache lookup; a fresh hit answers here), and the continuation that runs *)
(* when the provider call settles (store and answer, or fall back).        *)
(* Time is a discrete clock; one cache duration is Ttl ticks.              *)
(***************************************************************************)
EXTENDS Integers, Sequences, FiniteSets, TLC

VARIABLES store, now, focus, configured, req, resp

\* The crypto tab of the browser client: the Binance WebSocket it keeps, the
\* sockets it has created, its timers and its balance requests in flight.
\* (clientBalances is the client's firiBalances array.)
VARIABLES tab, refreshIntervals, balancesFetches, clientBalances, binanceWs,
          readyState, reconnectTimer, timerState, isReconnecting

\* The holdings poller of the browser client: the selected account, the
\* positions kept and rendered, its timers and its fetches in flight.
VARIABLES currentAccountId, currentPositions, accountInfoFetched,
          holdingsPollTimer, pollState, fetches, rendered

serverVars == <<store, now, focus, configured, req, resp>>

cryptoVars ==
    <<tab, refreshIntervals, balancesFetches, clientBalances, binanceWs,
      readyState, reconnectTimer, timerState, isReconnecting>>

holdingsVars ==
    <<currentAccountId, currentPositions, accountInfoFetched,
      holdingsPollTimer, pollState, fetches, rendered>>

clientVars == <<cryptoVars, holdingsVars>>

vars == <<serverVars, clientVars>>

(***************************************************************************)
(* Bounds of the model.                                                    *)
(***************************************************************************)
MaxTime == 3
Ttl == 2
MaxSockets == 3
MaxTimers == 2
MaxIntervals == 2
MaxBalancesFetches == 2
MaxPolls == 2
MaxFetches == 3

(***************************************************************************)
(* Endpoints and the stores (module-level Maps) they own.                  *)
(***************************************************************************)
MapEndpoints ==
    {"chart", "search", "news", "newsAV", "earnings", "estimates",
     "yahooEarnings", "financials", "recommendations", "profile",
     "firiBalances", "firiRate", "coin", "coinChart"}

Endpoints == MapEndpoints \cup {"previousCloses", "exchangeRates", "aiSummary"}

Stores ==
    {"chartCache", "searchCache", "newsCache", "newsCacheAV", "earningsCache",
     "estimatesCache", "yahooEarningsCache", "financialsCache",
     "recommendationsCache", "profileCache", "previousClosesCache",
     "exchangeRates", "balancesCache", "nokRateCache", "coinCache",
     "aiSummaryCache"}

StoreOf(e) ==
    CASE e = "chart" -> "chartCache"
      [] e = "search" -> "searchCache"
      [] e = "news" -> "newsCache"
      [] e = "newsAV" -> "newsCacheAV"
      [] e = "earnings" -> "earningsCache"
      [] e = "estimates" -> "estimatesCache"
      [] e = "yahooEarnings" -> "yahooEarningsCache"
      [] e = "financials" -> "financialsCache"
      [] e = "recommendations" -> "recommendationsCache"
      [] e = "profile" -> "profileCache"
      [] e = "previousCloses" -> "previousClosesCache"
      [] e = "exchangeRates" -> "exchangeRates"
      [] e = "firiBalances" -> "balancesCache"
      [] e = "firiRate" -> "nokRateCache"
      [] e = "coin" -> "coinCache"
      [] e = "coinChart" -> "coinCache"
      [] e = "aiSummary" -> "aiSummaryCache"

(***************************************************************************)
(* Request parameters.  subject is the required parameter ("" when the     *)
(* request lacks it); a and b are the optional secondary parameters, with  *)
(* the defaults the handlers give them.                                    *)
(***************************************************************************)
Symbols == {"AAPL", "msft"}

CoinIds == {"BTC-bitcoin"}

\* A parameter given twice in the query string (?q=AAPL&q=msft): the query
\* parser hands the handler an array instead of a string.
Repeated == "[AAPL,msft]"

IsArray(s) == s = Repeated

\* symbols.split(',')
Split(s) ==
    CASE s = "" -> <<>>
      [] s = "AAPL,msft" -> <<"AAPL", "msft">>
      [] OTHER -> <<s>>

Upper(s) ==
    CASE s = "AAPL" -> "AAPL"
      [] s = "msft" -> "MSFT"
      [] OTHER -> s

Lower(s) ==
    CASE s = "AAPL" -> "aapl"
      [] s = "msft" -> "msft"
      [] s = "MSFT" -> "msft"
      [] s = " MSFT" -> " msft"
      [] s = "BTC-bitcoin" -> "btc-bitcoin"
      [] OTHER -> s

Trim(s) ==
    CASE s = " msft" -> "msft"
      [] s = " MSFT" -> "MSFT"
      [] OTHER -> s

ServerFiriKey == "ssssssss1"

UserFiriKey == "uuuuuuuu1"

\* The key of another user, alike in its first eight characters.
OtherFiriKey == "uuuuuuuu2"

Prefix8(k) ==
    CASE k = "ssssssss1" -> "ssssssss"
      [] k = "uuuuuuuu1" -> "uuuuuuuu"
      [] k = "uuuuuuuu2" -> "uuuuuuuu"
      [] OTHER -> k

Params(e) ==
    CASE e = "chart" ->
           {[subject |-> s, a |-> "1d", b |-> "5m"] : s \in Symbols \cup {""}}
               \cup {[subject |-> "AAPL_1d", a |-> "5d", b |-> "1h"],
                     [subject |-> "AAPL", a |-> "1d_5d", b |-> "1h"]}
      [] e \in {"news", "newsAV"} ->
           {[subject |-> s, a |-> "10", b |-> "LATEST"] : s \in Symbols \cup {""}}
      [] e = "firiBalances" ->
           {[subject |-> k, a |-> "", b |-> ""] : k \in {"", UserFiriKey}}
      [] e \in {"firiRate", "exchangeRates"} ->
           {[subject |-> "", a |-> "", b |-> ""]}
      [] e = "coin" ->
           {[subject |-> s, a |-> "", b |-> ""] : s \in CoinIds}
      [] e = "coinChart" ->
           {[subject |-> s, a |-> "1", b |-> ""] : s \in CoinIds}
      [] e = "previousCloses" ->
           {[subject |-> s, a |-> "", b |-> ""] :
               s \in {"", "AAPL", "msft", "AAPL,msft", Repeated}}
      [] e = "search" ->
           {[subject |-> s, a |-> "", b |-> ""] : s \in Symbols \cup {"", Repeated}}
      [] OTHER ->
           {[subject |-> s, a |-> "", b |-> ""] : s \in Symbols \cup {""}}

\* The API key a Firi balances request uses: the header's, else the server's.
FiriApiKey(p, cfg) ==
    IF p.subject # "" THEN p.subject
    ELSE IF cfg THEN ServerFiriKey ELSE ""

CacheKeyAsGiven(e, p, cfg) == p.subject

CacheKey(e, p, cfg) ==
    CASE e = "chart" -> p.subject \o "_" \o p.a \o "_" \o p.b
      [] e = "search" -> Trim(Lower(p.subject))
      [] e = "news" -> p.subject \o "_" \o p.a
      [] e = "newsAV" -> p.subject \o "_" \o p.a \o "_" \o "" \o "_" \o p.b
      [] e = "yahooEarnings" -> Upper(p.subject)
      [] e = "firiBalances" -> "balances_" \o Prefix8(FiriApiKey(p, cfg))
      [] e = "firiRate" -> "rate"
      [] e = "exchangeRates" -> "rates"
      [] e = "coin" -> "coin_" \o Lower(p.subject)
      [] e = "coinChart" -> "chart_" \o Lower(p.subject) \o "_" \o p.a
      [] e = "aiSummary" -> "ai_summary_" \o p.subject
      [] OTHER -> p.subject

(***************************************************************************)
(* The cache: a store maps the keys present in it to entries.              *)
(***************************************************************************)
NoEntry == [value |-> "none", timestamp |-> -1]

Has(st, s, k) == k \in DOMAIN st[s]

Get(st, s, k) == IF Has(st, s, k) THEN st[s][k] ELSE NoEntry

Put(st, s, k, v, t) ==
    [st EXCEPT ![s] =
        [x \in DOMAIN st[s] \cup {k} |->
            IF x = k THEN [value |-> v, timestamp |-> t] ELSE st[s][x]]]

IsFreshInclusive(entry, t) == entry # NoEntry /\ t - entry.timestamp <= Ttl

IsFresh(entry, t) == entry # NoEntry /\ t - entry.timestamp < Ttl

(***************************************************************************)
(* What a provider call can yield.  ok: a 2xx body with data; empty: a 2xx *)
(* body that is structurally valid and holds no items; soft: a 2xx body    *)
(* that carries the provider's embedded error or rate-limit message; fail: *)
(* the call rejects (network error, timeout, non-2xx status, unparseable   *)
(* body).  status is the upstream HTTP status, 0 when none is known.       *)
(***************************************************************************)
Payloads == {"v1", "v2"}

Outcomes ==
    {[kind |-> "ok", body |-> v, status |-> 200] : v \in Payloads}
    \cup {[kind |-> k, body |-> "", status |-> 200] : k \in {"empty", "soft"}}
    \cup {[kind |-> "fail", body |-> "", status |-> c] : c \in {0, 429}}

\* What the Norges Bank call can yield when the coin helper's request reaches
\* the exchange-rates handler.
RateOutcomes == {o \in Outcomes : o.body # "v2" /\ o.status # 429 /\ o.kind # "empty"}

NoOutcome == [kind |-> "none", body |-> "", status |-> 0]

\* The tags of a response body and its HTTP status.
Tags(success, cached, stale, fallback, status) ==
    [success |-> success, cached |-> cached, stale |-> stale,
     fallback |-> fallback, status |-> status]

UpstreamOr500(o) == IF o.status \in {0, 200} THEN 500 ELSE o.status

(***************************************************************************)
(* The handlers.  For each: what it does with the required parameter and   *)
(* the credential (Pre), what it does with each provider outcome (the      *)
(* operator named after the handler) and the responses it sends (Res).     *)
(*   store            normalize, set, answer with the new value            *)
(*   fallback         answer with the entry if there is one, else failure  *)
(*   fail             answer with a failure whether or not an entry exists *)
(*   fallbackOrEmpty  the entry if there is one, else success with no data *)
(*   fallbackOrDefault the entry if there is one, else the default rate    *)
(*   default          success with the default rates, entry or not         *)
(*   fabricate        success with a generated substitute text             *)
(*   omit             the symbol is left out of the result                 *)
(***************************************************************************)

\* ---- yahooChart.js
getChartDataPreAny(p, cfg) == "ok"

getChartDataPre(p, cfg) == IF p.subject = "" THEN "invalid" ELSE "ok"

getChartData(o) ==
    CASE o.kind \in {"ok", "empty"} -> "store"
      [] o.kind = "soft" -> "fallback"
      [] o.kind = "fail" -> "fallback"

getChartDataRes(path, o) ==
    IF path \in {"live", "hit", "stale"}
    THEN Tags("true", "absent", "absent", FALSE, 200)
    ELSE Tags("false", "absent", "absent", FALSE, 200)

\* ---- search.js
\* query.trim() is called before the try block: on an array it throws.
searchStocksPre(p, cfg) ==
    IF p.subject = "" THEN "invalid"
    ELSE IF IsArray(p.subject) THEN "escaped" ELSE "ok"

searchStocks(o) ==
    CASE o.kind \in {"ok", "empty"} -> "store"
      [] o.kind = "soft" -> "fallbackOrEmpty"
      [] o.kind = "fail" -> "fallback"

searchStocksRes(path, o) ==
    CASE path \in {"live", "emptyUnstored", "invalid"} ->
           Tags("true", "absent", "absent", FALSE, 200)
      [] path = "hit" -> Tags("true", "true", "absent", FALSE, 200)
      [] path = "stale" -> Tags("true", "absent", "true", FALSE, 200)
      [] path = "escaped" -> Tags("absent", "absent", "absent", FALSE, 0)
      [] OTHER -> Tags("false", "absent", "absent", FALSE, 500)

\* ---- news (Finnhub company news)
getNewsSentimentPre(p, cfg) ==
    IF p.subject = "" THEN "invalid" ELSE IF ~cfg THEN "noconfig" ELSE "ok"

getNewsSentiment(o) ==
    CASE o.kind = "ok" -> "store"
      [] o.kind \in {"empty", "soft"} -> "fallbackOrEmpty"
      [] o.kind = "fail" -> "fallback"

getNewsSentimentRes(path, o) ==
    IF path \in {"live", "hit", "stale", "emptyUnstored"}
    THEN Tags("true", "absent", "absent", FALSE, 200)
    ELSE Tags("false", "absent", "absent", FALSE, 200)

\* ---- news (Alpha Vantage news sentiment)
getNewsSentimentAVPre(p, cfg) ==
    IF p.subject = "" THEN "invalid" ELSE IF ~cfg THEN "noconfig" ELSE "ok"

getNewsSentimentAV(o) ==
    CASE o.kind \in {"ok", "empty"} -> "store"
      [] o.kind = "soft" -> "fallback"
      [] o.kind = "fail" -> "fail"

getNewsSentimentAVRes(path, o) ==
    IF path \in {"live", "hit", "stale"}
    THEN Tags("true", "absent", "absent", FALSE, 200)
    ELSE Tags("false", "absent", "absent", FALSE, 200)

\* ---- earnings (Alpha Vantage EARNINGS)
getEarningsSurprisesPre(p, cfg) ==
    IF p.subject = "" THEN "invalid" ELSE IF ~cfg THEN "noconfig" ELSE "ok"

getEarningsSurprises(o) ==
    CASE o.kind = "ok" -> "store"
      [] o.kind = "soft" -> "fallback"
      [] o.kind = "empty" -> "fallback"
      [] o.kind = "fail" -> "fallback"

getEarningsSurprisesRes(path, o) ==
    IF path \in {"live", "hit", "stale"}
    THEN Tags("true", "absent", "absent", FALSE, 200)
    ELSE Tags("false", "absent", "absent", FALSE, 200)

getEarningsEstimatesPre(p, cfg) ==
    IF p.subject = "" THEN "invalid" ELSE IF ~cfg THEN "noconfig" ELSE "ok"

getEarningsEstimates(o) ==
    CASE o.kind = "ok" -> "store"
      [] o.kind = "soft" -> "fallback"
      [] o.kind = "empty" -> "fail"
      [] o.kind = "fail" -> "fail"

getEarningsEstimatesRes(path, o) ==
    IF path \in {"live", "hit", "stale"}
    THEN Tags("true", "absent", "absent", FALSE, 200)
    ELSE Tags("false", "absent", "absent", FALSE, 200)

\* ---- yahoo-earnings (Finnhub earnings and calendar)
getEarningsDataPre(p, cfg) == IF p.subject = "" THEN "invalid" ELSE "ok"

\* A soft body is no array: formatEarningsHistory throws on it, into the catch.
getEarningsData(o) ==
    CASE o.kind = "ok" -> "store"
      [] o.kind = "empty" -> "fallback"
      [] o.kind = "soft" -> "fallback"
      [] o.kind = "fail" -> "fallback"

getEarningsDataRes(path, o) ==
    CASE path = "live" -> Tags("true", "absent", "absent", FALSE, 200)
      [] path = "hit" -> Tags("true", "true", "absent", FALSE, 200)
      [] path = "stale" -> Tags("true", "absent", "true", FALSE, 200)
      [] path = "invalid" -> Tags("false", "absent", "absent", FALSE, 400)
      [] OTHER ->
           Tags("false", "absent", "absent", FALSE,
                IF o.kind = "empty" THEN 404 ELSE 500)

\* ---- financials
getBasicFinancialsPre(p, cfg) ==
    IF p.subject = "" THEN "invalid" ELSE IF ~cfg THEN "noconfig" ELSE "ok"

getBasicFinancials(o) ==
    CASE o.kind \in {"ok", "empty"} -> "store"
      [] o.kind = "soft" -> "fail"
      [] o.kind = "fail" -> "fail"

getBasicFinancialsRes(path, o) ==
    IF path \in {"live", "hit", "stale"}
    THEN Tags("true", "absent", "absent", FALSE, 200)
    ELSE Tags("false", "absent", "absent", FALSE, 200)

\* ---- recommendations.js
getRecommendationsPre(p, cfg) ==
    IF p.subject = "" THEN "invalid" ELSE IF ~cfg THEN "noconfig" ELSE "ok"

getRecommendations(o) ==
    CASE o.kind = "ok" -> "store"
      [] o.kind = "soft" -> "fallback"
      [] o.kind = "empty" -> "fail"
      [] o.kind = "fail" -> "fallback"

getRecommendationsRes(path, o) ==
    IF path \in {"live", "hit", "stale"}
    THEN Tags("true", "absent", "absent", FALSE, 200)
    ELSE Tags("false", "absent", "absent", FALSE, 200)

\* ---- finnhubProfile: the body is stored and sent as received
finnhubProfilePre(p, cfg) ==
    IF p.subject = "" THEN "invalid" ELSE IF ~cfg THEN "noconfig" ELSE "ok"

finnhubProfile(o) ==
    CASE o.kind \in {"ok", "empty", "soft"} -> "store"
      [] o.kind = "fail" -> "fallback"

finnhubProfileRes(path, o) ==
    CASE path \in {"live", "hit", "stale"} ->
           Tags("absent", "absent", "absent", FALSE, 200)
      [] path = "invalid" -> Tags("absent", "absent", "absent", FALSE, 400)
      [] path = "noconfig" -> Tags("absent", "absent", "absent", FALSE, 500)
      [] OTHER -> Tags("absent", "absent", "absent", FALSE, UpstreamOr500(o))

\* ---- firi.js
firiBalancesPre(p, cfg) == IF FiriApiKey(p, cfg) = "" THEN "noconfig" ELSE "ok"

\* A soft body is no array: balances.filter throws on it, into the catch.
firiBalances(o) ==
    CASE o.kind \in {"ok", "empty"} -> "store"
      [] o.kind = "soft" -> "fallback"
      [] o.kind = "fail" -> "fallback"

firiBalancesRes(path, o) ==
    CASE path \in {"live", "hit", "stale"} ->
           Tags("true", "absent", "absent", FALSE, 200)
      [] path = "noconfig" -> Tags("false", "absent", "absent", FALSE, 200)
      [] OTHER -> Tags("false", "absent", "absent", FALSE, UpstreamOr500(o))

firiRatePre(p, cfg) == "ok"

\* empty: the markets array has no usdtnok market, the rate is the default.
firiRate(o) ==
    CASE o.kind \in {"ok", "empty"} -> "store"
      [] o.kind = "soft" -> "fallbackOrDefault"
      [] o.kind = "fail" -> "fallbackOrDefault"

firiRateRes(path, o) == Tags("true", "absent", "absent", FALSE, 200)

\* ---- coinpaprika
coinDetailsPre(p, cfg) == "ok"

\* Every field of the body is read with ?. : any 2xx body is formatted and stored.
coinDetails(o) ==
    CASE o.kind \in {"ok", "empty", "soft"} -> "store"
      [] o.kind = "fail" -> "fallback"

coinDetailsRes(path, o) ==
    IF path \in {"live", "hit", "stale"}
    THEN Tags("true", "absent", "absent", FALSE, 200)
    ELSE Tags("false", "absent", "absent", FALSE, UpstreamOr500(o))

coinChartPre(p, cfg) == "ok"

\* A soft body is no array: response.data.map throws on it, into the catch.
coinChart(o) ==
    CASE o.kind \in {"ok", "empty"} -> "store"
      [] o.kind = "soft" -> "fallback"
      [] o.kind = "fail" -> "fallback"

coinChartRes(path, o) ==
    IF path \in {"live", "hit", "stale"}
    THEN Tags("true", "absent", "absent", FALSE, 200)
    ELSE Tags("false", "absent", "absent", FALSE, UpstreamOr500(o))

\* ---- exchangeRates.js
exchangeRatesPre(p, cfg) == "ok"

\* A body without the expected data sets leaves the 1.0 placeholders in place.
exchangeRates(o) ==
    CASE o.kind \in {"ok", "empty", "soft"} -> "store"
      [] o.kind = "fail" -> "default"

exchangeRatesRes(path, o) ==
    CASE path = "live" -> Tags("true", "false", "absent", FALSE, 200)
      [] path = "hit" -> Tags("true", "true", "absent", FALSE, 200)
      [] OTHER -> Tags("true", "absent", "absent", TRUE, 200)

\* ---- previousCloses.js: per symbol
\* symbols.split(',') is called before the try block: on an array it throws.
previousClosesPre(p, cfg) ==
    IF p.subject = "" THEN "invalid"
    ELSE IF ~cfg THEN "noconfig"
    ELSE IF IsArray(p.subject) THEN "escaped" ELSE "ok"

previousClosesStoreAny(o) == "store"

previousCloses(o) ==
    CASE o.kind = "ok" -> "store"
      [] o.kind \in {"empty", "soft"} -> "omit"
      [] o.kind = "fail" -> "omit"

previousClosesRes(path, o) ==
    CASE path = "invalid" -> Tags("false", "absent", "absent", FALSE, 400)
      [] path = "noconfig" -> Tags("false", "absent", "absent", FALSE, 500)
      [] path = "escaped" -> Tags("absent", "absent", "absent", FALSE, 0)
      [] OTHER -> Tags("true", "absent", "absent", FALSE, 200)

\* ---- aiSummary
generateCompanySummaryPre(p, cfg) == IF p.subject = "" THEN "invalid" ELSE "ok"

\* A completion without choices throws a TypeError; only an error whose message
\* names the quota (429) is answered with a failure.
generateCompanySummary(o) ==
    CASE o.kind = "ok" -> "store"
      [] o.kind \in {"empty", "soft"} -> "fabricate"
      [] o.kind = "fail" -> IF o.status = 429 THEN "fail" ELSE "fabricate"

generateCompanySummaryRes(path, o) ==
    CASE path \in {"live", "fabricated"} ->
           Tags("true", "false", "absent", FALSE, 200)
      [] path = "hit" -> Tags("true", "true", "absent", FALSE, 200)
      [] path = "invalid" -> Tags("false", "absent", "absent", FALSE, 400)
      [] OTHER -> Tags("false", "absent", "absent", FALSE, 503)

(***************************************************************************)
(* The route table.                                                        *)
(***************************************************************************)
Pre(e, p, cfg) ==
    CASE e = "chart" -> getChartDataPre(p, cfg)
      [] e = "search" -> searchStocksPre(p, cfg)
      [] e = "news" -> getNewsSentimentPre(p, cfg)
      [] e = "newsAV" -> getNewsSentimentAVPre(p, cfg)
      [] e = "earnings" -> getEarningsSurprisesPre(p, cfg)
      [] e = "estimates" -> getEarningsEstimatesPre(p, cfg)
      [] e = "yahooEarnings" -> getEarningsDataPre(p, cfg)
      [] e = "financials" -> getBasicFinancialsPre(p, cfg)
      [] e = "recommendations" -> getRecommendationsPre(p, cfg)
      [] e = "profile" -> finnhubProfilePre(p, cfg)
      [] e = "firiBalances" -> firiBalancesPre(p, cfg)
      [] e = "firiRate" -> firiRatePre(p, cfg)
      [] e = "coin" -> coinDetailsPre(p, cfg)
      [] e = "coinChart" -> coinChartPre(p, cfg)
      [] e = "exchangeRates" -> exchangeRatesPre(p, cfg)
      [] e = "previousCloses" -> previousClosesPre(p, cfg)
      [] e = "aiSummary" -> generateCompanySummaryPre(p, cfg)

Disposition(e, o) ==
    CASE e = "chart" -> getChartData(o)
      [] e = "search" -> searchStocks(o)
      [] e = "news" -> getNewsSentiment(o)
      [] e = "newsAV" -> getNewsSentimentAV(o)
      [] e = "earnings" -> getEarningsSurprises(o)
      [] e = "estimates" -> getEarningsEstimates(o)
      [] e = "yahooEarnings" -> getEarningsData(o)
      [] e = "financials" -> getBasicFinancials(o)
      [] e = "recommendations" -> getRecommendations(o)
      [] e = "profile" -> finnhubProfile(o)
      [] e = "firiBalances" -> firiBalances(o)
      [] e = "firiRate" -> firiRate(o)
      [] e = "coin" -> coinDetails(o)
      [] e = "coinChart" -> coinChart(o)
      [] e = "exchangeRates" -> exchangeRates(o)
      [] e = "previousCloses" -> previousCloses(o)
      [] e = "aiSummary" -> generateCompanySummary(o)

Res(e, path, o) ==
    CASE e = "chart" -> getChartDataRes(path, o)
      [] e = "search" -> searchStocksRes(path, o)
      [] e = "news" -> getNewsSentimentRes(path, o)
      [] e = "newsAV" -> getNewsSentimentAVRes(path, o)
      [] e = "earnings" -> getEarningsSurprisesRes(path, o)
      [] e = "estimates" -> getEarningsEstimatesRes(path, o)
      [] e = "yahooEarnings" -> getEarningsDataRes(path, o)
      [] e = "financials" -> getBasicFinancialsRes(path, o)
      [] e = "recommendations" -> getRecommendationsRes(path, o)
      [] e = "profile" -> finnhubProfileRes(path, o)
      [] e = "firiBalances" -> firiBalancesRes(path, o)
      [] e = "firiRate" -> firiRateRes(path, o)
      [] e = "coin" -> coinDetailsRes(path, o)
      [] e = "coinChart" -> coinChartRes(path, o)
      [] e = "exchangeRates" -> exchangeRatesRes(path, o)
      [] e = "previousCloses" -> previousClosesRes(path, o)
      [] e = "aiSummary" -> generateCompanySummaryRes(path, o)

(***************************************************************************)
(* State.                                                                  *)
(***************************************************************************)
MaxInFlight == 2

Slots == 1..MaxInFlight

Idle ==
    [ep |-> "idle", p |-> [subject |-> "", a |-> "", b |-> ""], key |-> "",
     cached |-> NoEntry, t0 |-> 0, phase |-> "idle", todo |-> <<>>,
     o |-> NoOutcome, items |-> {}, calls |-> 0]

NoResponse ==
    [ep |-> "none", p |-> [subject |-> "", a |-> "", b |-> ""],
     path |-> "none", success |-> "absent", cached |-> "absent",
     stale |-> "absent", fallback |-> FALSE, status |-> 0, calls |-> 0,
     items |-> {}]

\* How old the entry a lookup found was, by the clock value the handler
\* compared it with.
Seen(entry, t) ==
    IF entry = NoEntry THEN "none"
    ELSE IF t - entry.timestamp < Ttl THEN "within" ELSE "expired"

\* One key's part of a response: how it was obtained (path), the provider
\* outcome handled for it, what the lookup found (seen), the value the store
\* held for the key when the handler decided (prior) and the value sent (data).
Item(k, path, o, seen, prior, data) ==
    [key |-> k, path |-> path, outcome |-> o.kind, seen |-> seen,
     prior |-> prior, data |-> data]

Response(e, p, path, o, calls, items) ==
    LET t == Res(e, path, o)
    IN  [ep |-> e, p |-> p, path |-> path, success |-> t.success,
         cached |-> t.cached, stale |-> t.stale, fallback |-> t.fallback,
         status |-> t.status,
         calls |-> calls, items |-> items]

\* The endpoints whose provider needs a credential from the environment.
Keyed ==
    {"news", "newsAV", "earnings", "estimates", "yahooEarnings", "financials",
     "recommendations", "profile", "previousCloses", "firiBalances", "aiSummary"}

EmptyMap == [x \in {} |-> NoEntry]

EmptyStores == [s \in Stores |-> EmptyMap]

\* The crypto tab before it is first shown: no socket, no timer, no balances;
\* 0 stands for null.
CryptoStart ==
    /\ tab = "stocks"
    /\ refreshIntervals = 0
    /\ balancesFetches = 0
    /\ clientBalances = {}
    /\ binanceWs = 0
    /\ readyState = [s \in 1..MaxSockets |-> "UNBORN"]
    /\ reconnectTimer = 0
    /\ timerState = [t \in 1..MaxTimers |-> "unset"]
    /\ isReconnecting = FALSE

NoFetch == [accid |-> "none", phase |-> "unset"]

\* The holdings poller before an account is selected.
HoldingsStart ==
    /\ currentAccountId = "none"
    /\ currentPositions = "none"
    /\ accountInfoFetched = FALSE
    /\ holdingsPollTimer = 0
    /\ pollState = [t \in 1..MaxPolls |-> "unset"]
    /\ fetches = [f \in 1..MaxFetches |-> NoFetch]
    /\ rendered = "none"

ClientStart == CryptoStart /\ HoldingsStart

Init ==
    /\ store = EmptyStores
    /\ now = 0
    /\ focus \in {{e} : e \in Endpoints}
    /\ configured \in (IF focus \cap Keyed # {} THEN BOOLEAN ELSE {TRUE})
    /\ req = [c \in Slots |-> Idle]
    /\ resp = NoResponse
    /\ ClientStart

(***************************************************************************)
(* The pieces of a handler.                                                *)
(***************************************************************************)
OnHitRestamp(st, s, k, t) == Put(st, s, k, Get(st, s, k).value, t)

\* A fresh hit answers from the entry and writes nothing.
OnHit(st, s, k, t) == st

\* The handlers that look the entry up again in their catch block; the others
\* use the entry they read before the provider call.
Relooks(e) == e \in {"firiBalances", "firiRate", "coin", "coinChart"}

FallbackEntry(e, r, st) ==
    IF Relooks(e) THEN Get(st, StoreOf(e), r.key) ELSE r.cached

StoreTimeKept(e, r, t) ==
    IF r.cached # NoEntry THEN r.cached.timestamp ELSE t

\* The timestamp written with an entry: Date.now() at the store step, except
\* where the handler reuses the `now` it read on entry.
StoreTime(e, r, t) ==
    IF e \in {"exchangeRates", "previousCloses"} THEN r.t0 ELSE t

\* The value a handler stores for a 2xx body.
Normalize(e, o) ==
    CASE o.kind = "ok" -> o.body
      [] o.kind = "empty" ->
           IF e = "exchangeRates" THEN "placeholder"
           ELSE IF e = "firiRate" THEN "default" ELSE "empty"
      [] o.kind = "soft" ->
           IF e = "exchangeRates" THEN "placeholder" ELSE "softbody"
      [] OTHER -> "none"

\* The continuation after the provider call of a single-key handler:
\* the store it leaves, the path taken and the value sent.
Handle(e, r, o, st, t) ==
    LET d == Disposition(e, o)
        fb == FallbackEntry(e, r, st)
        out(st2, path, data) == [store |-> st2, path |-> path, data |-> data]
    IN  CASE d = "store" ->
               out(Put(st, StoreOf(e), r.key, Normalize(e, o), StoreTime(e, r, t)),
                   "live", Normalize(e, o))
          [] d = "fallback" ->
               IF fb # NoEntry THEN out(st, "stale", fb.value)
               ELSE out(st, "fail", "none")
          [] d = "fail" -> out(st, "fail", "none")
          [] d = "fallbackOrEmpty" ->
               IF fb # NoEntry THEN out(st, "stale", fb.value)
               ELSE out(st, "emptyUnstored", "empty")
          [] d = "fallbackOrDefault" ->
               IF fb # NoEntry THEN out(st, "stale", fb.value)
               ELSE out(st, "default", "default")
          [] d = "default" -> out(st, "default", "default")
          [] d = "fabricate" -> out(st, "fabricated", "fabricated")

\* Map.delete(key)
Remove(st, s, k) ==
    [st EXCEPT ![s] = [x \in DOMAIN st[s] \ {k} |-> st[s][x]]]

WipeNothing(st, s) == st

\* Map.clear()
Wipe(st, s) == [st EXCEPT ![s] = EmptyMap]

\* previousCloses: walk the symbol list up to the first symbol that needs a
\* provider call, answering the fresh ones from the cache (freshness is
\* judged against the `now` read on entry).
RECURSIVE Advance(_, _, _, _)
Advance(st, t0, todo, items) ==
    IF todo = <<>> THEN [todo |-> todo, items |-> items]
    ELSE LET entry == Get(st, "previousClosesCache", Head(todo))
         IN  IF IsFresh(entry, t0)
             THEN Advance(st, t0, Tail(todo),
                    items \cup {Item(Head(todo), "hit", NoOutcome,
                                     Seen(entry, t0), entry.value, entry.value)})
             ELSE [todo |-> todo, items |-> items]

\* The provider outcomes a request can meet: without the credential a keyed
\* provider that the handler calls anyway rejects the call.
ProviderOutcomes(e, cfg) ==
    IF ~cfg /\ e \in {"yahooEarnings", "aiSummary"}
    THEN {o \in Outcomes : o.kind = "fail"}
    ELSE Outcomes

\* The provider calls a handler starts before its first await: two side by
\* side (Promise.all) for coin details and yahoo-earnings, one otherwise.
FirstCalls(e) == IF e \in {"coin", "yahooEarnings"} THEN 2 ELSE 1

PendingSingleFlight(c, e, p, k, entry, todo, items) ==
    [ep |-> e, p |-> p, key |-> k, cached |-> entry, t0 |-> now,
     phase |-> "provider", todo |-> todo, o |-> NoOutcome, items |-> items,
     calls |-> IF \E d \in Slots \ {c} :
                      req[d].phase = "provider" /\ req[d].ep = e /\ req[d].key = k
               THEN 0 ELSE FirstCalls(e)]

\* A request that missed, waiting for the provider call(s) it has started.
Pending(c, e, p, k, entry, todo, items) ==
    [ep |-> e, p |-> p, key |-> k, cached |-> entry, t0 |-> now,
     phase |-> "provider", todo |-> todo, o |-> NoOutcome, items |-> items,
     calls |-> FirstCalls(e)]

AttemptsRetry(e, o, n) ==
    IF o.kind = "fail" THEN {n + 1}
    ELSE IF e = "profile" THEN {n, n + 1} ELSE {n}

\* The upstream attempts a single-key handler has made when it answers, n
\* being those started before the await: the profile handler asks Clearbit
\* for a logo when the 2xx body has none; no handler calls again on failure.
Attempts(e, o, n) ==
    IF e = "profile" /\ o.kind # "fail" THEN {n, n + 1} ELSE {n}

(***************************************************************************)
(* Actions.                                                                *)
(***************************************************************************)
\* The synchronous prefix of a handler, for the endpoints with a Map cache.
Begin(c, e, p) ==
    /\ e \in focus
    /\ e \notin {"previousCloses", "aiSummary"}
    /\ req[c] = Idle
    /\ LET k == CacheKey(e, p, configured)
           entry == Get(store, StoreOf(e), k)
       IN  IF Pre(e, p, configured) # "ok"
           THEN /\ resp' = Response(e, p, Pre(e, p, configured), NoOutcome, 0, {})
                /\ UNCHANGED <<store, req>>
           ELSE IF IsFresh(entry, now)
           THEN /\ resp' = Response(e, p, "hit", NoOutcome, 0,
                              {Item(k, "hit", NoOutcome, Seen(entry, now),
                                    entry.value, entry.value)})
                /\ store' = OnHit(store, StoreOf(e), k, now)
                /\ UNCHANGED req
           ELSE /\ req' = [req EXCEPT ![c] = Pending(c, e, p, k, entry, <<>>, {})]
                /\ UNCHANGED <<store, resp>>
    /\ UNCHANGED <<now, focus, configured>>
    /\ UNCHANGED clientVars

\* previousCloses: validation, then the loop up to the first provider call.
BeginCloses(c, p) ==
    /\ "previousCloses" \in focus
    /\ req[c] = Idle
    /\ LET e == "previousCloses"
           adv == Advance(store, now, Split(p.subject), {})
       IN  IF Pre(e, p, configured) # "ok"
           THEN /\ resp' = Response(e, p, Pre(e, p, configured), NoOutcome, 0, {})
                /\ UNCHANGED req
           ELSE IF adv.todo = <<>>
           THEN /\ resp' = Response(e, p, "hit", NoOutcome, 0, adv.items)
                /\ UNCHANGED req
           ELSE /\ req' = [req EXCEPT ![c] =
                             Pending(c, e, p, Head(adv.todo),
                                     Get(store, StoreOf(e), Head(adv.todo)),
                                     adv.todo, adv.items)]
                /\ UNCHANGED resp
    /\ UNCHANGED <<store, now, focus, configured>>
    /\ UNCHANGED clientVars

\* aiSummary: node-cache's get returns an entry only while it has not expired
\* and drops an expired one; at the exact expiry instant either may happen.
BeginSummary(c, p, atExpiry) ==
    /\ "aiSummary" \in focus
    /\ req[c] = Idle
    /\ LET e == "aiSummary"
           k == CacheKey(e, p, configured)
           entry == Get(store, StoreOf(e), k)
           age == now - entry.timestamp
           live == entry # NoEntry /\ (age < Ttl \/ (age = Ttl /\ atExpiry))
       IN  IF Pre(e, p, configured) # "ok"
           THEN /\ resp' = Response(e, p, Pre(e, p, configured), NoOutcome, 0, {})
                /\ UNCHANGED <<store, req>>
           ELSE IF live
           THEN /\ resp' = Response(e, p, "hit", NoOutcome, 0,
                              {Item(k, "hit", NoOutcome, Seen(entry, now),
                                    entry.value, entry.value)})
                /\ UNCHANGED <<store, req>>
           ELSE /\ store' = Remove(store, StoreOf(e), k)
                /\ req' = [req EXCEPT ![c] = Pending(c, e, p, k, NoEntry, <<>>, {})]
                /\ UNCHANGED resp
    /\ UNCHANGED <<now, focus, configured>>
    /\ UNCHANGED clientVars

\* The continuation of a single-key handler when its provider call settles.
Settle(c, o) ==
    /\ req[c].phase = "provider"
    /\ req[c].ep \notin {"previousCloses", "coin", "coinChart"}
    /\ o \in ProviderOutcomes(req[c].ep, configured)
    /\ LET r == req[c]
           h == Handle(r.ep, r, o, store, now)
       IN  /\ store' = h.store
           /\ \E n \in Attempts(r.ep, o, r.calls) :
                resp' = Response(r.ep, r.p, h.path, o, n,
                          {Item(r.key, h.path, o, Seen(r.cached, r.t0),
                                Get(store, StoreOf(r.ep), r.key).value, h.data)})
    /\ req' = [req EXCEPT ![c] = Idle]
    /\ UNCHANGED <<now, focus, configured>>
    /\ UNCHANGED clientVars

\* previousCloses: one symbol's provider call settles; the loop goes on to
\* the next symbol that needs a call, or answers.
SettleCloses(c, o) ==
    /\ req[c].phase = "provider"
    /\ req[c].ep = "previousCloses"
    /\ o \in ProviderOutcomes("previousCloses", configured)
    /\ LET r == req[c]
           e == "previousCloses"
           stored == previousCloses(o) = "store"
           st2 == IF stored
                  THEN Put(store, StoreOf(e), r.key, Normalize(e, o), StoreTime(e, r, now))
                  ELSE store
           item == Item(r.key, IF stored THEN "live" ELSE "omitted", o,
                        Seen(r.cached, r.t0),
                        Get(store, StoreOf(e), r.key).value,
                        IF stored THEN Normalize(e, o) ELSE "none")
           adv == Advance(st2, r.t0, Tail(r.todo), r.items \cup {item})
       IN  /\ store' = st2
           /\ IF adv.todo = <<>>
              THEN /\ resp' = Response(e, r.p, "live", o, r.calls, adv.items)
                   /\ req' = [req EXCEPT ![c] = Idle]
              ELSE /\ req' = [req EXCEPT ![c] =
                                [r EXCEPT !.key = Head(adv.todo),
                                          !.cached = Get(st2, StoreOf(e), Head(adv.todo)),
                                          !.todo = adv.todo,
                                          !.items = adv.items,
                                          !.calls = r.calls + 1]]
                   /\ UNCHANGED resp
    /\ UNCHANGED <<now, focus, configured>>
    /\ UNCHANGED clientVars

Tick ==
    /\ now < MaxTime
    /\ now' = now + 1
    /\ UNCHANGED <<store, focus, configured, req, resp>>
    /\ UNCHANGED clientVars

\* GET /api/exchangeRates as the coin helper calls it: the handler runs to its
\* answer; usd is data.USD of that answer.
ServeRates(st, t, fx) ==
    LET entry == Get(st, "exchangeRates", "rates")
        r == [Idle EXCEPT !.ep = "exchangeRates", !.key = "rates",
                          !.cached = entry, !.t0 = t]
        h == Handle("exchangeRates", r, fx, st, t)
    IN  IF IsFresh(entry, t) THEN [store |-> st, usd |-> entry.value]
        ELSE [store |-> h.store, usd |-> h.data]

\* getUsdToNokRate after its call to /api/exchangeRates: answered, the rate is
\* stored under usd_nok_rate; timeout, the exchange-rates handler ran but the
\* helper gave up and returns the default; refused, nothing ran.
getUsdToNokRate(st, t, local, fx) ==
    CASE local = "answered" ->
           Put(ServeRates(st, t, fx).store, "coinCache", "usd_nok_rate",
               ServeRates(st, t, fx).usd, t)
      [] local = "timeout" -> ServeRates(st, t, fx).store
      [] OTHER -> st

\* The 2xx bodies after which the handler asks for the USD/NOK rate: the coin
\* chart asks before it reads the body, so also for a body it then fails on.
NeedsRate(e, o) ==
    \/ Disposition(e, o) = "store"
    \/ e = "coinChart" /\ o.kind = "soft"

\* coin details and coin chart: the CoinPaprika calls settle.  A 2xx body is
\* handled once the USD/NOK rate is at hand: at once when the helper's cached
\* rate is fresh, else after the helper's own call.
SettleCoin(c, o) ==
    /\ req[c].phase = "provider"
    /\ req[c].ep \in {"coin", "coinChart"}
    /\ o \in ProviderOutcomes(req[c].ep, configured)
    /\ LET r == req[c]
           h == Handle(r.ep, r, o, store, now)
           prior == Get(store, StoreOf(r.ep), r.key).value
       IN  IF NeedsRate(r.ep, o)
              /\ ~IsFresh(Get(store, "coinCache", "usd_nok_rate"), now)
           THEN /\ req' = [req EXCEPT ![c] =
                             [r EXCEPT !.phase = "rate",
                                       !.o = o,
                                       !.calls = r.calls + 1]]
                /\ UNCHANGED <<store, resp>>
           ELSE /\ store' = h.store
                /\ resp' = Response(r.ep, r.p, h.path, o, r.calls,
                              {Item(r.key, h.path, o, Seen(r.cached, r.t0),
                                    prior, h.data)})
                /\ req' = [req EXCEPT ![c] = Idle]
    /\ UNCHANGED <<now, focus, configured>>
    /\ UNCHANGED clientVars

SettleRate(c, local, fx) ==
    /\ req[c].phase = "rate"
    /\ LET r == req[c]
           st1 == getUsdToNokRate(store, now, local, fx)
           h == Handle(r.ep, r, r.o, st1, now)
       IN  /\ store' = h.store
           /\ resp' = Response(r.ep, r.p, h.path, r.o, r.calls,
                         {Item(r.key, h.path, r.o, Seen(r.cached, r.t0),
                               Get(store, StoreOf(r.ep), r.key).value, h.data)})
    /\ req' = [req EXCEPT ![c] = Idle]
    /\ UNCHANGED <<now, focus, configured>>
    /\ UNCHANGED clientVars

\* The acknowledgement of a cache-clear route; sym is the identifier the
\* request named ("" when it named none).
ClearRoutes ==
    {"earnings-clear-cache", "yahoo-earnings-clear-cache", "firi/clear-cache",
     "coinpaprika/clear-cache"}

\* The entries present in st and absent from st2.
Removed(st, st2) ==
    UNION {{Item(k, "removed", NoOutcome, "none", st[s][k].value, "none") :
               k \in DOMAIN st[s] \ DOMAIN st2[s]} : s \in Stores}

Cleared(route, sym, removed) ==
    [NoResponse EXCEPT !.ep = route, !.p.subject = sym, !.path = "cleared",
                       !.success = "true", !.status = 200, !.items = removed]

clearCacheOwnOnly(sym) ==
    /\ focus \cap {"earnings", "estimates"} # {}
    /\ store' = IF sym # ""
                THEN Remove(store, "earningsCache", sym)
                ELSE Wipe(Wipe(store, "earningsCache"), "estimatesCache")
    /\ resp' = Cleared("earnings-clear-cache", sym, Removed(store, store'))
    /\ UNCHANGED <<now, focus, configured, req>>
    /\ UNCHANGED clientVars

\* GET /api/earnings-clear-cache?symbol=
clearCache(sym) ==
    /\ focus \cap {"earnings", "estimates"} # {}
    /\ store' = IF sym # ""
                THEN Remove(Remove(store, "earningsCache", sym), "estimatesCache", sym)
                ELSE Wipe(Wipe(store, "earningsCache"), "estimatesCache")
    /\ resp' = Cleared("earnings-clear-cache", sym, Removed(store, store'))
    /\ UNCHANGED <<now, focus, configured, req>>
    /\ UNCHANGED clientVars

\* GET /api/yahoo-earnings-clear-cache?symbol=
clearCacheYahoo(sym) ==
    /\ "yahooEarnings" \in focus
    /\ store' = IF sym # ""
                THEN Remove(store, "yahooEarningsCache", Upper(sym))
                ELSE Wipe(store, "yahooEarningsCache")
    /\ resp' = Cleared("yahoo-earnings-clear-cache", sym, Removed(store, store'))
    /\ UNCHANGED <<now, focus, configured, req>>
    /\ UNCHANGED clientVars

\* GET /api/firi/clear-cache: the handler reads nothing of the request, so
\* an identifier the request names has no effect.
clearCacheFiri(sym) ==
    /\ focus \cap {"firiBalances", "firiRate"} # {}
    /\ store' = Wipe(Wipe(store, "balancesCache"), "nokRateCache")
    /\ resp' = Cleared("firi/clear-cache", sym, Removed(store, store'))
    /\ UNCHANGED <<now, focus, configured, req>>
    /\ UNCHANGED clientVars

\* GET /api/coinpaprika/clear-cache: likewise reads nothing of the request.
clearCacheCoin(sym) ==
    /\ focus \cap {"coin", "coinChart"} # {}
    /\ store' = Wipe(store, "coinCache")
    /\ resp' = Cleared("coinpaprika/clear-cache", sym, Removed(store, store'))
    /\ UNCHANGED <<now, focus, configured, req>>
    /\ UNCHANGED clientVars

(***************************************************************************)
(* Requests handled one at a time: a request begins only when no other is  *)
(* waiting for its provider.                                               *)
(***************************************************************************)
Quiet == \A c \in Slots : req[c] = Idle

Next ==
    \/ \E e \in Endpoints : \E p \in Params(e) : Quiet /\ Begin(1, e, p)
    \/ \E p \in Params("previousCloses") : Quiet /\ BeginCloses(1, p)
    \/ \E p \in Params("aiSummary") : \E b \in BOOLEAN : Quiet /\ BeginSummary(1, p, b)
    \/ \E c \in Slots : \E o \in Outcomes : Settle(c, o)
    \/ \E c \in Slots : \E o \in Outcomes : SettleCloses(c, o)
    \/ \E c \in Slots : \E o \in Outcomes : SettleCoin(c, o)
    \/ \E c \in Slots : \E local \in {"answered", "timeout", "refused"} :
         \E fx \in RateOutcomes : SettleRate(c, local, fx)
    \/ \E sym \in Symbols \cup {""} : Quiet /\ clearCache(sym)
    \/ \E sym \in Symbols \cup {""} : Quiet /\ clearCacheYahoo(sym)
    \/ \E sym \in {"", UserFiriKey} : Quiet /\ clearCacheFiri(sym)
    \/ \E sym \in CoinIds \cup {""} : Quiet /\ clearCacheCoin(sym)
    \/ Tick

Spec == Init /\ [][Next]_vars

(***************************************************************************)
(* The three earnings endpoints served side by side, with their two clear  *)
(* routes: the stores of all three fill, so that what a clear of one does  *)
(* to the others shows.  The provider answers with data or fails, and the  *)
(* requests are for one symbol.                                            *)
(***************************************************************************)
EarningsEndpoints == {"earnings", "estimates", "yahooEarnings"}

EarningsSymbols == {"msft"}

InitEarnings ==
    /\ store = EmptyStores
    /\ now = 0
    /\ focus = EarningsEndpoints
    /\ configured = TRUE
    /\ req = [c \in Slots |-> Idle]
    /\ resp = NoResponse
    /\ ClientStart

NextEarnings ==
    \/ \E e \in EarningsEndpoints :
         \E p \in {x \in Params(e) : x.subject \in EarningsSymbols} :
             Quiet /\ Begin(1, e, p)
    \/ \E c \in Slots : \E o \in {x \in Outcomes : x.kind \in {"ok", "fail"}} :
         Settle(c, o)
    \/ \E sym \in EarningsSymbols \cup {""} : Quiet /\ clearCache(sym)
    \/ \E sym \in EarningsSymbols \cup {""} : Quiet /\ clearCacheYahoo(sym)
    \/ Tick

SpecEarnings == InitEarnings /\ [][NextEarnings]_vars

(***************************************************************************)
(* Requests handled concurrently: while a handler awaits its provider the  *)
(* event loop runs the synchronous prefix of any other request, and the    *)
(* provider calls settle in any order.  The requests are for one symbol.   *)
(***************************************************************************)
ConcurrentEndpoints == {"chart", "search", "exchangeRates"}

ConcurrentParams(e) ==
    IF e = "exchangeRates" THEN Params(e)
    ELSE {p \in Params(e) : p.subject = "AAPL" /\ p.a \in {"", "1d"}}

InitConcurrent ==
    /\ store = EmptyStores
    /\ now = 0
    /\ focus \in {{e} : e \in ConcurrentEndpoints}
    /\ configured = TRUE
    /\ req = [c \in Slots |-> Idle]
    /\ resp = NoResponse
    /\ ClientStart

NextConcurrent ==
    \/ \E c \in Slots : \E e \in ConcurrentEndpoints :
         \E p \in ConcurrentParams(e) : Begin(c, e, p)
    \/ \E c \in Slots : \E o \in Outcomes : Settle(c, o)
    \/ Tick

SpecConcurrent == InitConcurrent /\ [][NextConcurrent]_vars

(***************************************************************************)
(* Requests that spell one subject in several ways (case, surrounding      *)
(* blanks), on the endpoints that normalise their key and on one that      *)
(* takes the symbol as given, with the clear routes of these endpoints.    *)
(***************************************************************************)
KeyEndpoints == {"yahooEarnings", "search", "earnings", "coin"}

KeySubjects(e) ==
    CASE e = "coin" -> {"BTC-bitcoin", "btc-bitcoin"}
      [] e = "search" -> {"msft", " MSFT"}
      [] OTHER -> {"msft", "MSFT"}

KeyParams(e) == {[subject |-> s, a |-> "", b |-> ""] : s \in KeySubjects(e)}

InitKeys ==
    /\ store = EmptyStores
    /\ now = 0
    /\ focus \in {{e} : e \in KeyEndpoints}
    /\ configured = TRUE
    /\ req = [c \in Slots |-> Idle]
    /\ resp = NoResponse
    /\ ClientStart

NextKeys ==
    \/ \E e \in KeyEndpoints : \E p \in KeyParams(e) : Quiet /\ Begin(1, e, p)
    \/ \E c \in Slots : \E o \in {x \in Outcomes : x.kind \in {"ok", "fail"}} :
         Settle(c, o)
    \/ \E c \in Slots : \E o \in {x \in Outcomes : x.kind \in {"ok", "fail"}} :
         SettleCoin(c, o)
    \/ \E c \in Slots : \E local \in {"answered", "timeout", "refused"} :
         \E fx \in RateOutcomes : SettleRate(c, local, fx)
    \/ \E sym \in KeySubjects("earnings") : Quiet /\ clearCache(sym)
    \/ \E sym \in KeySubjects("yahooEarnings") : Quiet /\ clearCacheYahoo(sym)
    \/ \E sym \in KeySubjects("coin") : Quiet /\ clearCacheCoin(sym)
    \/ Tick

SpecKeys == InitKeys /\ [][NextKeys]_vars

(***************************************************************************)
(* Firi balances asked for by several users: Firi answers a balances call  *)
(* with the balances of the account that the call's access key belongs to. *)
(***************************************************************************)
FiriKeys == {UserFiriKey, OtherFiriKey}

FiriParams == {[subject |-> k, a |-> "", b |-> ""] : k \in FiriKeys \cup {""}}

\* The balances Firi holds for the account of an access key.
BalancesOf(k) == IF k = OtherFiriKey THEN "v2" ELSE "v1"

\* What the balances call of a request can yield.
FiriOutcomes(r) ==
    {o \in Outcomes :
        \/ o.kind = "fail"
        \/ o.kind = "ok" /\ o.body = BalancesOf(FiriApiKey(r.p, configured))}

InitFiri ==
    /\ store = EmptyStores
    /\ now = 0
    /\ focus = {"firiBalances"}
    /\ configured \in BOOLEAN
    /\ req = [c \in Slots |-> Idle]
    /\ resp = NoResponse
    /\ ClientStart

NextFiri ==
    \/ \E p \in FiriParams : Quiet /\ Begin(1, "firiBalances", p)
    \/ \E c \in Slots : \E o \in FiriOutcomes(req[c]) : Settle(c, o)
    \/ Quiet /\ clearCacheFiri("")
    \/ Tick

SpecFiri == InitFiri /\ [][NextFiri]_vars

(***************************************************************************)
(* A provider that may stay silent: the connection is open and no answer   *)
(* comes.  The await of a handler then settles only if the call was given  *)
(* a timeout, whose expiry rejects the call like any transport failure.    *)
(* The requests are for one symbol.                                        *)
(***************************************************************************)
\* The endpoints whose provider call is given a timeout option.
Timed ==
    {"chart", "search", "news", "earnings", "yahooEarnings", "firiBalances",
     "firiRate", "coin", "coinChart"}

SilentEndpoints == {"chart", "recommendations", "exchangeRates"}

\* The rejection of a call whose timeout expired: an error without a response.
TimedOut == [kind |-> "fail", body |-> "", status |-> 0]

\* The timeout of the provider call of the request in slot c expires.
Timeout(c) ==
    /\ req[c].ep \in Timed
    /\ Settle(c, TimedOut)

InitSilent ==
    /\ store = EmptyStores
    /\ now = 0
    /\ focus \in {{e} : e \in SilentEndpoints}
    /\ configured = TRUE
    /\ req = [c \in Slots |-> Idle]
    /\ resp = NoResponse
    /\ ClientStart

NextSilent ==
    \/ \E e \in SilentEndpoints : \E p \in ConcurrentParams(e) :
         Quiet /\ Begin(1, e, p)
    \/ \E c \in Slots : Timeout(c)
    \/ \E c \in Slots : \E o \in Outcomes : Settle(c, o)
    \/ Tick

SpecSilent == InitSilent /\ [][NextSilent]_vars

(***************************************************************************)
(* The crypto tab of the browser client.  Showing the tab starts the       *)
(* balance refresh; balances that arrive connect the Binance WebSocket;    *)
(* leaving the tab disconnects it.  A socket's close event is delivered    *)
(* some time after close() was called on it, or when the connection fails  *)
(* or the server ends it.  The user has stored a Firi API key.             *)
(***************************************************************************)
\* WebSocket.readyState without a pending close.
Live == {"CONNECTING", "OPEN"}

Unborn(rs) == {s \in 1..MaxSockets : rs[s] = "UNBORN"}

\* new WebSocket(wsUrl): the next socket object.
NewSocket(rs) == CHOOSE s \in Unborn(rs) : \A x \in Unborn(rs) : s <= x

\* socket.close(): a connecting or open socket starts closing.
Close(rs, s) == IF rs[s] \in Live THEN [rs EXCEPT ![s] = "CLOSING"] ELSE rs

\* The currencies that have a Binance symbol.
BINANCE_SYMBOLS == {"BTC"}

symbolsToTrack(balances) == balances \cap BINANCE_SYMBOLS

\* What /api/firi/balances can answer the client: a failure, or balances.
BalanceResults ==
    {[success |-> FALSE, data |-> {}]}
        \cup {[success |-> TRUE, data |-> d] : d \in {{}, {"BTC"}, {"NOK"}}}

\* connectBinanceWebSocket(): binanceWs and the sockets after the call.
connectBinanceWebSocket(bw, rs, balances) ==
    IF bw # 0 /\ rs[bw] = "OPEN"
    THEN [binanceWs |-> bw, readyState |-> rs]
    ELSE LET rs1 == IF bw # 0 THEN Close(rs, bw) ELSE rs
         IN  IF symbolsToTrack(balances) = {}
             THEN [binanceWs |-> bw, readyState |-> rs1]
             ELSE [binanceWs |-> NewSocket(rs1),
                   readyState |-> [rs1 EXCEPT ![NewSocket(rs1)] = "CONNECTING"]]

\* isReconnecting after connectBinanceWebSocket().
ConnectResets(bw, rs, rec) == IF bw # 0 /\ rs[bw] = "OPEN" THEN rec ELSE FALSE

\* The model has a socket left for the call to create.
Connectable(bw, rs, balances) ==
    \/ bw # 0 /\ rs[bw] = "OPEN"
    \/ symbolsToTrack(balances) = {}
    \/ Unborn(rs) # {}

\* A click on the crypto tab button: initFiri().
ClickCrypto ==
    /\ balancesFetches < MaxBalancesFetches
    /\ refreshIntervals < MaxIntervals
    /\ tab' = "crypto"
    /\ balancesFetches' = balancesFetches + 1
    /\ refreshIntervals' = refreshIntervals + 1
    /\ UNCHANGED <<clientBalances, binanceWs, readyState, reconnectTimer,
                   timerState, isReconnecting>>
    /\ UNCHANGED <<serverVars, holdingsVars>>

\* A click on another tab button: stopFiriUpdates(), that is
\* disconnectBinanceWebSocket().
ClickStocks ==
    /\ tab' = "stocks"
    /\ isReconnecting' = FALSE
    /\ timerState' = IF reconnectTimer # 0 /\ timerState[reconnectTimer] = "pending"
                     THEN [timerState EXCEPT ![reconnectTimer] = "cleared"]
                     ELSE timerState
    /\ reconnectTimer' = 0
    /\ readyState' = IF binanceWs # 0 THEN Close(readyState, binanceWs) ELSE readyState
    /\ binanceWs' = 0
    /\ UNCHANGED <<refreshIntervals, balancesFetches, clientBalances>>
    /\ UNCHANGED <<serverVars, holdingsVars>>

\* setInterval(fetchFiriBalances, 30000) fires: a balances request starts.
RefreshFires ==
    /\ refreshIntervals > 0
    /\ balancesFetches < MaxBalancesFetches
    /\ balancesFetches' = balancesFetches + 1
    /\ UNCHANGED <<tab, refreshIntervals, clientBalances, binanceWs, readyState,
                   reconnectTimer, timerState, isReconnecting>>
    /\ UNCHANGED <<serverVars, holdingsVars>>

\* fetchFiriBalances() after its awaits: balances that arrived are kept and
\* the WebSocket is connected.
BalancesArrive(result) ==
    /\ balancesFetches > 0
    /\ balancesFetches' = balancesFetches - 1
    /\ IF result.success
       THEN /\ Connectable(binanceWs, readyState, result.data)
            /\ clientBalances' = result.data
            /\ binanceWs' =
                 connectBinanceWebSocket(binanceWs, readyState, result.data).binanceWs
            /\ readyState' =
                 connectBinanceWebSocket(binanceWs, readyState, result.data).readyState
            /\ isReconnecting' = ConnectResets(binanceWs, readyState, isReconnecting)
       ELSE UNCHANGED <<clientBalances, binanceWs, readyState, isReconnecting>>
    /\ UNCHANGED <<tab, refreshIntervals, reconnectTimer, timerState>>
    /\ UNCHANGED <<serverVars, holdingsVars>>

\* The connection of socket s is established.
SocketOpens(s) ==
    /\ readyState[s] = "CONNECTING"
    /\ readyState' = [readyState EXCEPT ![s] = "OPEN"]
    /\ UNCHANGED <<tab, refreshIntervals, balancesFetches, clientBalances,
                   binanceWs, reconnectTimer, timerState, isReconnecting>>
    /\ UNCHANGED <<serverVars, holdingsVars>>

Unset(ts) == {t \in 1..MaxTimers : ts[t] = "unset"}

\* Socket s is closed (after close(), or by a failure or the server) and its
\* onclose handler runs.
SocketCloses(s) ==
    /\ readyState[s] \in Live \cup {"CLOSING"}
    /\ readyState' = [readyState EXCEPT ![s] = "CLOSED"]
    /\ binanceWs' = 0
    /\ IF ~isReconnecting /\ clientBalances # {}
       THEN /\ Unset(timerState) # {}
            /\ isReconnecting' = TRUE
            /\ \E t \in Unset(timerState) :
                 /\ \A x \in Unset(timerState) : t <= x
                 /\ reconnectTimer' = t
                 /\ timerState' = [timerState EXCEPT ![t] = "pending"]
       ELSE UNCHANGED <<isReconnecting, reconnectTimer, timerState>>
    /\ UNCHANGED <<tab, refreshIntervals, balancesFetches, clientBalances>>
    /\ UNCHANGED <<serverVars, holdingsVars>>

\* The reconnect timer t fires: connectBinanceWebSocket().
ReconnectFires(t) ==
    /\ timerState[t] = "pending"
    /\ Connectable(binanceWs, readyState, clientBalances)
    /\ timerState' = [timerState EXCEPT ![t] = "fired"]
    /\ binanceWs' =
         connectBinanceWebSocket(binanceWs, readyState, clientBalances).binanceWs
    /\ readyState' =
         connectBinanceWebSocket(binanceWs, readyState, clientBalances).readyState
    /\ isReconnecting' = ConnectResets(binanceWs, readyState, isReconnecting)
    /\ UNCHANGED <<tab, refreshIntervals, balancesFetches, clientBalances,
                   reconnectTimer>>
    /\ UNCHANGED <<serverVars, holdingsVars>>

\* The server plays no part in the client's behaviours.
ServerIdle ==
    /\ store = EmptyStores
    /\ now = 0
    /\ focus = {}
    /\ configured = TRUE
    /\ req = [c \in Slots |-> Idle]
    /\ resp = NoResponse

InitCrypto == ServerIdle /\ ClientStart

NextCrypto ==
    \/ ClickCrypto
    \/ ClickStocks
    \/ RefreshFires
    \/ \E result \in BalanceResults : BalancesArrive(result)
    \/ \E s \in 1..MaxSockets : SocketOpens(s)
    \/ \E s \in 1..MaxSockets : SocketCloses(s)
    \/ \E t \in 1..MaxTimers : ReconnectFires(t)

SpecCrypto == InitCrypto /\ [][NextCrypto]_vars

(***************************************************************************)
(* The holdings poller of the browser client.  fetchPositionsForAccount    *)
(* runs up to its await when an account is clicked or a poll timer fires;  *)
(* its continuation runs when the positions arrive, and once more after    *)
(* the account info it awaits on the first load.  Positions, a poll timer  *)
(* and a fetch are named by the account they are for.                      *)
(***************************************************************************)
Accounts == {"A", "B"}

FreeFetches == {f \in 1..MaxFetches : fetches[f] = NoFetch}

FreePolls == {t \in 1..MaxPolls : pollState[t] = "unset"}

\* fetchPositionsForAccount(accid) up to its await: the pending timer is
\* cleared (ps is the timers without the one that has just fired), the
\* account becomes the current one and the positions call starts.
StartFetch(accid, ps) ==
    /\ FreeFetches # {}
    /\ pollState' = IF holdingsPollTimer # 0
                    THEN [ps EXCEPT ![holdingsPollTimer] = "unset"]
                    ELSE ps
    /\ holdingsPollTimer' = 0
    /\ accountInfoFetched' = IF currentAccountId # accid THEN FALSE
                             ELSE accountInfoFetched
    /\ currentAccountId' = accid
    /\ \E f \in FreeFetches :
         /\ \A x \in FreeFetches : f <= x
         /\ fetches' = [fetches EXCEPT ![f] = [accid |-> accid, phase |-> "positions"]]
    /\ UNCHANGED <<currentPositions, rendered>>

\* The user clicks an account (or the first account is opened).
SelectAccount(accid) ==
    /\ StartFetch(accid, pollState)
    /\ UNCHANGED <<serverVars, cryptoVars>>

\* A poll timer fires.
PollFires(t) ==
    /\ pollState[t] \in Accounts
    /\ StartFetch(pollState[t], [pollState EXCEPT ![t] = "unset"])
    /\ UNCHANGED <<serverVars, cryptoVars>>

\* The end of fetchPositionsForAccount(accid): the positions are rendered
\* and the next poll is scheduled if the account is still the current one.
RenderAndSchedule(f, accid) ==
    /\ rendered' = accid
    /\ fetches' = [fetches EXCEPT ![f] = NoFetch]
    /\ IF currentAccountId = accid
       THEN /\ FreePolls # {}
            /\ \E t \in FreePolls :
                 /\ \A x \in FreePolls : t <= x
                 /\ pollState' = [pollState EXCEPT ![t] = accid]
                 /\ holdingsPollTimer' = t
       ELSE UNCHANGED <<pollState, holdingsPollTimer>>

\* API.fetchPositions settles for fetch f.
PositionsArrive(f, ok) ==
    /\ fetches[f].phase = "positions"
    /\ LET accid == fetches[f].accid
       IN  IF ~ok
           THEN /\ fetches' = [fetches EXCEPT ![f] = NoFetch]
                /\ UNCHANGED <<currentPositions, accountInfoFetched, pollState,
                               holdingsPollTimer, rendered>>
           ELSE /\ currentPositions' = accid
                /\ IF ~accountInfoFetched
                   THEN /\ accountInfoFetched' = TRUE
                        /\ fetches' = [fetches EXCEPT ![f].phase = "info"]
                        /\ UNCHANGED <<pollState, holdingsPollTimer, rendered>>
                   ELSE /\ RenderAndSchedule(f, accid)
                        /\ UNCHANGED accountInfoFetched
    /\ UNCHANGED currentAccountId
    /\ UNCHANGED <<serverVars, cryptoVars>>

\* fetchAccountInfo(accid) returns to fetch f (it catches its own errors).
InfoArrives(f) ==
    /\ fetches[f].phase = "info"
    /\ RenderAndSchedule(f, fetches[f].accid)
    /\ UNCHANGED <<currentAccountId, currentPositions, accountInfoFetched>>
    /\ UNCHANGED <<serverVars, cryptoVars>>

InitHoldings == ServerIdle /\ ClientStart

NextHoldings ==
    \/ \E t \in 1..MaxPolls : PollFires(t)
    \/ \E accid \in Accounts : SelectAccount(accid)
    \/ \E f \in 1..MaxFetches : \E ok \in BOOLEAN : PositionsArrive(f, ok)
    \/ \E f \in 1..MaxFetches : InfoArrives(f)

SpecHoldings == InitHoldings /\ [][NextHoldings]_vars

(***************************************************************************)
(* Properties.                                                             *)
(***************************************************************************)
\* The data endpoints that keep a cache of their own in a Map or a variable.
CachedEndpoints == MapEndpoints \cup {"previousCloses", "exchangeRates"}

IsError(r) == r.success = "false" \/ r.status >= 400

\* The step sends a response.
Responds == resp' # resp

EntryOf(st, e, k) == Get(st, StoreOf(e), k)

\* C1: on every cached endpoint, when the provider call fails at transport
\* level and an entry exists for the key (expired or not), the response
\* carries that entry's value and is not an error response.
C1_StaleOnTransportFailure ==
    resp.ep \in CachedEndpoints =>
        \A it \in resp.items :
            (it.outcome = "fail" /\ it.prior # "none")
                => (it.data = it.prior /\ ~IsError(resp))

\* C2: for one key, a response that follows a store (a fresh hit, or the
\* answer to a failed refresh) carries the value most recently stored for
\* the key: v1 after store(v1), v2 and never v1 once v2 was stored.
C2_FallbackIsMostRecent ==
    [][(Responds /\ resp'.ep \in CachedEndpoints) =>
          \A it \in resp'.items :
              (it.outcome \in {"fail", "none"} /\ Has(store, StoreOf(resp'.ep), it.key))
                  => it.data = EntryOf(store, resp'.ep, it.key).value]_vars

C4_HitChangesNothing ==
    [][(Responds /\ resp'.path = "hit") =>
          /\ resp'.calls = 0
          /\ req' = req
          /\ store' = store
          /\ \A it \in resp'.items :
               /\ Has(store, StoreOf(resp'.ep), it.key)
               /\ it.data = EntryOf(store, resp'.ep, it.key).value]_vars

\* A hit was answered from an entry stored at an earlier time.
C4_Witness ==
    /\ resp.path = "hit"
    /\ resp.calls = 0
    /\ \E it \in resp.items :
         /\ Has(store, StoreOf(resp.ep), it.key)
         /\ EntryOf(store, resp.ep, it.key).timestamp < now
         /\ it.data = EntryOf(store, resp.ep, it.key).value

\* C5: when the provider call fails and no entry exists for the key, the
\* response is a typed failure (success = false) without data, except for the
\* default rate of the FX handlers.
C5_TypedFailureWithoutEntry ==
    \A it \in resp.items :
        (it.outcome = "fail" /\ it.prior = "none")
            => \/ (resp.success = "false" /\ it.data = "none")
               \/ (resp.ep \in {"exchangeRates", "firiRate"} /\ it.data = "default")

\* C6: a 2xx provider response that carries an embedded error never results
\* in a cache write.
C6_SoftFailureNeverStored ==
    [][Responds =>
          \A it \in resp'.items :
              it.outcome = "soft"
                  => EntryOf(store', resp'.ep, it.key) = EntryOf(store, resp'.ep, it.key)]_vars

\* C7: on the endpoints that inspect the body for an embedded error, a soft
\* failure met while an entry exists is answered with the entry's value.
SoftDetecting ==
    {"earnings", "estimates", "news", "newsAV", "recommendations", "financials", "chart"}

C7_StaleOnSoftFailure ==
    resp.ep \in SoftDetecting =>
        \A it \in resp.items :
            (it.outcome = "soft" /\ it.prior # "none")
                => (it.data = it.prior /\ ~IsError(resp))

\* The endpoints whose provider answers with a list of items.
ListEndpoints ==
    {"chart", "search", "news", "newsAV", "earnings", "estimates",
     "yahooEarnings", "recommendations", "firiBalances", "coinChart"}

\* C8: a valid empty provider result is stored and answered as success with
\* empty data (so that a request within the TTL is answered from the store).
C8_EmptyIsStored ==
    resp.ep \in ListEndpoints =>
        \A it \in resp.items :
            it.outcome = "empty"
                => /\ resp.success = "true"
                   /\ it.data = "empty"
                   /\ EntryOf(store, resp.ep, it.key).value = "empty"

\* C9: a valid empty provider result met while an older entry exists is
\* answered with the empty result, not with the older value and not with a
\* failure.
C9_EmptyNotFallback ==
    resp.ep \in ListEndpoints =>
        \A it \in resp.items :
            (it.outcome = "empty" /\ it.prior \notin {"none", "empty"})
                => (it.data = "empty" /\ it.path # "stale" /\ ~IsError(resp))

\* C10: two responses of one cached endpoint that differ in provenance (live,
\* fresh hit, stale fallback, hard failure) differ in success/cached/stale.
Provenances == {"live", "hit", "stale", "fail"}

C10_ProvenanceDecidable ==
    [][(/\ resp.ep = resp'.ep
        /\ resp'.ep \in CachedEndpoints
        /\ resp.path \in Provenances
        /\ resp'.path \in Provenances
        /\ resp.path # resp'.path)
          => <<resp.success, resp.cached, resp.stale>>
                 # <<resp'.success, resp'.cached, resp'.stale>>]_vars

\* The endpoints whose cache key joins several request parameters with '_'.
TupleKeyed == {"chart", "newsAV", "coinChart"}

\* C11: two requests whose parameter tuples differ never read or write the
\* same cache entry: consecutive responses of one endpoint that touch the
\* same key belong to requests with the same parameter tuple.
C11_KeysInjective ==
    [][(/\ Responds
        /\ resp'.ep \in TupleKeyed
        /\ resp.ep = resp'.ep
        /\ \E i \in resp.items : \E j \in resp'.items : i.key = j.key)
          => resp'.p = resp.p]_vars

\* The keys an identifier can stand for in the stores a clear route owns.
KeysOf(id) ==
    {id, Upper(id), Lower(id), "coin_" \o Lower(id), "chart_" \o Lower(id) \o "_1",
     "balances_" \o Prefix8(id)}

Clears == Responds /\ resp'.ep \in ClearRoutes

\* C12: a cache-clear request that names an identifier removes only entries
\* keyed by that identifier: every entry under another key keeps its value
\* and its timestamp, on each of the four clear routes.
C12_KeyedClearIsLocal ==
    [][(Clears /\ resp'.p.subject # "") =>
          \A s \in Stores : \A k \in DOMAIN store[s] :
              k \notin KeysOf(resp'.p.subject)
                  => (k \in DOMAIN store'[s] /\ store'[s][k] = store[s][k])]_vars

\* The stores each clear route empties when the request names no identifier.
ClearedStores(route) ==
    CASE route = "earnings-clear-cache" -> {"earningsCache", "estimatesCache"}
      [] route = "yahoo-earnings-clear-cache" -> {"yahooEarningsCache"}
      [] route = "firi/clear-cache" -> {"balancesCache", "nokRateCache"}
      [] route = "coinpaprika/clear-cache" -> {"coinCache"}
      [] OTHER -> {}

FullClear(r) == r.ep \in ClearRoutes /\ r.p.subject = ""

\* C13: after a cache-clear request without an identifier the cleared stores
\* hold no key, and the next request on such a store misses: it calls the
\* provider and has no value to fall back to.
C13_FullClearThenMiss ==
    [][/\ (Responds /\ FullClear(resp')) =>
             \A s \in ClearedStores(resp'.ep) : DOMAIN store'[s] = {}
       /\ (/\ FullClear(resp)
           /\ Responds
           /\ resp'.ep \in Endpoints
           /\ StoreOf(resp'.ep) \in ClearedStores(resp.ep)) =>
             \A it \in resp'.items :
                 /\ it.prior = "none"
                 /\ it.path \notin {"hit", "stale"}
                 /\ resp'.calls >= 1]_vars

\* A full clear removed an entry and a request for that key is now waiting
\* for the provider, having found nothing in the store.
C13_Witness ==
    /\ FullClear(resp)
    /\ \E c \in Slots : \E it \in resp.items :
         /\ req[c].phase = "provider"
         /\ req[c].key = it.key
         /\ req[c].cached = NoEntry
         /\ ~Has(store, StoreOf(req[c].ep), it.key)

\* C14: a keyed clear of the earnings cache for s removes s from the
\* earnings-surprises store and from the estimates store and touches no other
\* store; a keyed clear of the yahoo-earnings cache for s removes s from its
\* own store only.
C14_CascadePerEndpoint ==
    [][/\ (Responds /\ resp'.ep = "earnings-clear-cache" /\ resp'.p.subject # "") =>
             /\ ~Has(store', "earningsCache", resp'.p.subject)
             /\ ~Has(store', "estimatesCache", resp'.p.subject)
             /\ \A s \in Stores \ {"earningsCache", "estimatesCache"} :
                  store'[s] = store[s]
       /\ (Responds /\ resp'.ep = "yahoo-earnings-clear-cache"
             /\ resp'.p.subject # "") =>
             /\ ~Has(store', "yahooEarningsCache", Upper(resp'.p.subject))
             /\ \A s \in Stores \ {"yahooEarningsCache"} : store'[s] = store[s]]_vars

\* A keyed earnings clear removed the symbol's entries from both stores (they
\* held different values) while the yahoo-earnings store keeps its entry.
C14_Witness ==
    /\ resp.ep = "earnings-clear-cache"
    /\ resp.p.subject # ""
    /\ Cardinality({it \in resp.items : it.key = resp.p.subject}) = 2
    /\ ~Has(store, "earningsCache", resp.p.subject)
    /\ ~Has(store, "estimatesCache", resp.p.subject)
    /\ Has(store, "yahooEarningsCache", Upper(resp.p.subject))

\* The endpoints whose request has a required subject parameter in the query
\* string (symbol, ticker, symbols, q).
SubjectEndpoints ==
    Endpoints \ {"firiBalances", "firiRate", "exchangeRates", "coin", "coinChart"}

LacksSubject(r) == r.ep \in SubjectEndpoints /\ r.p.subject = ""

\* C15: a request that lacks its required subject parameter makes no provider
\* call and touches no cache entry: it is answered at once, every store is the
\* same before and after, and no such request ever waits for a provider.
C15_MissingSubjectTouchesNothing ==
    [][/\ (Responds /\ LacksSubject(resp')) =>
             /\ store' = store
             /\ req' = req
             /\ resp'.calls = 0
             /\ resp'.items = {}
       /\ \A c \in Slots : ~LacksSubject(req'[c])]_vars

\* A request without its subject was answered while the endpoint's store held
\* an entry.
C15_Witness ==
    /\ LacksSubject(resp)
    /\ resp.path = "invalid"
    /\ DOMAIN store[StoreOf(resp.ep)] # {}

\* C16: a request that lacks its required subject parameter is answered with
\* a typed validation failure (success = false, or an error with status 400)
\* and never with a success result, on every endpoint, search included.
C16_MissingSubjectIsFailure ==
    LacksSubject(resp) =>
        /\ resp.success # "true"
        /\ (resp.success = "false" \/ resp.status = 400)

\* The request r is for a keyed provider and the credential it needs is absent
\* (a Firi balances request may bring its own key in a header).
LacksCredential(r) ==
    /\ r.ep \in Keyed
    /\ ~configured
    /\ ~LacksSubject(r)
    /\ r.ep = "firiBalances" => r.p.subject = ""

\* C17: when the credential an endpoint needs is absent the handler answers at
\* once with a configuration failure: no provider call is made or awaited, for
\* every endpoint that calls a keyed provider.
C17_NoCredentialFailsAtOnce ==
    /\ \A c \in Slots : ~LacksCredential(req[c])
    /\ LacksCredential(resp) =>
         /\ resp.path = "noconfig"
         /\ resp.success # "true"
         /\ resp.calls = 0

Resources(e, p) ==
    CASE e = "previousCloses" -> Len(Split(p.subject))
      [] e = "coin" -> 3
      [] e \in {"yahooEarnings", "coinChart", "profile"} -> 2
      [] OTHER -> 1

C19_DefaultRateIsLastResort ==
    resp.ep \in {"exchangeRates", "firiRate"} =>
        \A it \in resp.items :
            /\ it.data = "default" => it.prior \in {"none", "default"}
            /\ (it.outcome = "fail" /\ it.prior # "none") => it.data = it.prior

\* The requests waiting for the provider under key k of endpoint e, and the
\* provider calls in flight for that key.
Waiting(e, k) ==
    {c \in Slots : req[c].phase = "provider" /\ req[c].ep = e /\ req[c].key = k}

RECURSIVE SumCalls(_)
SumCalls(cs) ==
    IF cs = {} THEN 0
    ELSE LET c == CHOOSE x \in cs : TRUE
         IN  req[c].calls + SumCalls(cs \ {c})

\* C20: there is no single-flight de-duplication: every request that missed
\* has a provider call of its own in flight, so the calls in flight for one
\* key are as many as the requests waiting on it.
C20_NoSingleFlight ==
    \A c \in Slots :
        req[c].phase = "provider" =>
            /\ req[c].calls >= 1
            /\ SumCalls(Waiting(req[c].ep, req[c].key))
                   >= Cardinality(Waiting(req[c].ep, req[c].key))

\* Two requests for one cold key are both waiting for the provider: two calls
\* are in flight for the key.
C20_Witness ==
    \E c \in Slots : \E d \in Slots \ {c} :
        /\ req[c].phase = "provider"
        /\ req[d].phase = "provider"
        /\ req[c].ep = req[d].ep
        /\ req[c].key = req[d].key
        /\ req[c].cached = NoEntry
        /\ req[d].cached = NoEntry
        /\ SumCalls(Waiting(req[c].ep, req[c].key)) >= 2

\* The slots whose request is answered by this step.
Settling == {c \in Slots : req[c].phase # "idle" /\ req'[c] = Idle}

\* C21: when concurrent requests for one key complete successfully, each
\* store step writes the key's entry whole: after it the entry holds the
\* storing request's value together with the timestamp that same request
\* wrote (the time of its store step or the time it read on entry), never one
\* request's value with another's timestamp.
C21_LastWriteWins ==
    [][(Responds /\ resp'.path = "live" /\ resp'.ep \in ConcurrentEndpoints) =>
          \A it \in resp'.items : \E c \in Settling :
              /\ req[c].key = it.key
              /\ Has(store', StoreOf(resp'.ep), it.key)
              /\ EntryOf(store', resp'.ep, it.key).value = it.data
              /\ EntryOf(store', resp'.ep, it.key).timestamp \in {now, req[c].t0}]_vars

\* A request that had missed stored its value over the value a concurrent
\* request stored while it was waiting.
C21_Witness ==
    /\ resp.path = "live"
    /\ \E it \in resp.items :
         /\ it.seen = "none"
         /\ it.prior \notin {"none", it.data}
         /\ EntryOf(store, resp.ep, it.key).value = it.data

\* C22: a store over an entry that holds a different value leaves only the
\* new value under the key, stamped with the time of that second store.
C22_OverwriteStampsStoreTime ==
    [][Responds =>
          \A it \in resp'.items :
              (it.path = "live" /\ it.prior \notin {"none", it.data}) =>
                  /\ EntryOf(store', resp'.ep, it.key).value = it.data
                  /\ EntryOf(store', resp'.ep, it.key).timestamp = now]_vars

\* C23: an entry of any store, the AI-summary cache included, stays under
\* its key until a clear request removes it: a hit, a miss, a failure or the
\* passing of its lifetime never deletes it (a later store may replace its
\* value).
C23_OnlyClearDeletes ==
    [][\A s \in Stores : \A k \in DOMAIN store[s] :
          k \in DOMAIN store'[s] \/ Clears]_vars

\* C24: a request that waits for its provider can always be answered
\* without the provider: the call is bounded by a timeout whose expiry the
\* handler treats as a failed fetch, so no request waits for ever on a
\* provider that never answers.
C24_EveryFetchBounded ==
    \A c \in Slots : req[c].phase = "provider" => ENABLED Timeout(c)

\* C25: every handler run ends in a response the handler itself sends: a
\* request that was waiting is answered by the step that ends it, and no
\* error leaves the handler with the request unanswered.
C25_OneTypedResponse ==
    [][/\ \A c \in Slots :
            (req[c].phase # "idle" /\ req'[c] = Idle) =>
                (resp'.ep = req[c].ep /\ resp'.path # "none")
       /\ (Responds /\ resp'.ep \in Endpoints) => resp'.path # "escaped"]_vars

\* C26: a hard-failure response (the provider call failed and nothing could
\* be served in its place) carries success=false and an HTTP status in the
\* error range, never a 2xx status.
C26_HardFailureStatus ==
    (resp.ep \in Endpoints /\ resp.path = "fail") =>
        /\ resp.success = "false"
        /\ resp.status >= 400

\* The endpoints whose request takes this step.
Acting ==
    ({req[c].ep : c \in Slots} \cup {req'[c].ep : c \in Slots} \cup {resp'.ep})
        \cap Endpoints

\* C27: the stores are independent: a step of a data request changes no
\* store but the one of the request's own endpoint.
C27_StoresIndependent ==
    [][\A s \in Stores :
          store'[s] # store[s] => (Clears \/ s \in {StoreOf(e) : e \in Acting})]_vars

\* The subject of a request as the endpoint normalises it.
NormalizedSubject(e, s) ==
    CASE e = "yahooEarnings" -> Upper(s)
      [] e = "search" -> Trim(Lower(s))
      [] e = "coin" -> Lower(s)
      [] OTHER -> s

ClearRouteOf(e) ==
    CASE e = "yahooEarnings" -> "yahoo-earnings-clear-cache"
      [] e = "earnings" -> "earnings-clear-cache"
      [] e = "coin" -> "coinpaprika/clear-cache"
      [] OTHER -> "none"

\* C28: an endpoint normalises the subject in the same way on lookup, store
\* and clear (yahoo-earnings upper-cases it, search lower-cases and trims
\* it, coin data lower-cases the id, earnings takes it as given): once a
\* request has stored an entry, the next request whose normalised subject is
\* the same is, within the entry's lifetime, answered from that entry without
\* a provider call, and a keyed clear naming such a subject removes the entry.
C28_SameKeyOnLookupStoreClear ==
    [][(resp.ep \in KeyEndpoints /\ resp.path = "live" /\ Quiet) =>
          LET e == resp.ep
              k == (CHOOSE it \in resp.items : TRUE).key
              entry == EntryOf(store, e, k)
              same(s) == NormalizedSubject(e, s) = NormalizedSubject(e, resp.p.subject)
          IN  /\ \A c \in Slots :
                   (req'[c].phase # "idle" /\ req'[c].ep = e /\ same(req'[c].p.subject))
                       => ~IsFresh(entry, now)
              /\ (Responds /\ resp'.ep = e /\ same(resp'.p.subject)
                           /\ IsFresh(entry, now)) =>
                     /\ resp'.path = "hit"
                     /\ \A it \in resp'.items : it.key = k /\ it.data = entry.value
              /\ (Responds /\ resp'.ep = ClearRouteOf(e) /\ same(resp'.p.subject)) =>
                     ~Has(store', StoreOf(e), k)]_vars

\* A keyed clear that spelt the symbol in lower case removed the entry that
\* yahoo-earnings keeps under the upper-case symbol.
C28_Witness ==
    /\ resp.ep = "yahoo-earnings-clear-cache"
    /\ resp.p.subject = "msft"
    /\ \E it \in resp.items : it.key = "MSFT"

\* C29: a handler whose refresh failed falls back to the entry its store
\* holds at the moment of the failure: the value it serves is the one in the
\* store then (a newer one if a concurrent request stored it meanwhile), and
\* it serves none when the entry was cleared during the fetch.
C29_FallbackReadsStoreAtFailure ==
    resp.ep \in CachedEndpoints =>
        \A it \in resp.items : it.path = "stale" => it.data = it.prior

\* C30: a request whose provider call failed, at transport level or softly,
\* changes no store when it answers: the failing key keeps its value and its
\* timestamp, and a stale entry served in place of the answer is not
\* stamped anew.
C30_FailureWritesNothing ==
    [][(Responds /\ resp'.ep \in Endpoints /\ resp'.items # {}
          /\ \A it \in resp'.items : it.outcome \in {"fail", "soft"})
          => store' = store]_vars

\* The values a handler has in its own text rather than from a provider:
\* the default rate 10.5 and the placeholder rates 1.0.
HardCoded == {"default", "placeholder"}

\* C31: no cache store ever holds a hard-coded substitute value: every
\* cached value was parsed from a payload the provider sent.
C31_NoHardCodedValueCached ==
    \A s \in Stores : \A k \in DOMAIN store[s] : store[s][k].value \notin HardCoded

\* C32: the timestamp kept with a key never decreases from one write of
\* the key to the next, however concurrent requests interleave.
C32_TimestampNeverDecreases ==
    [][\A s \in Stores : \A k \in DOMAIN store[s] \cap DOMAIN store'[s] :
          store'[s][k].timestamp >= store[s][k].timestamp]_vars

\* C33: the balances cache is per API key: the balances in a response to a
\* request made with key K are those Firi holds for K, whether they come
\* from the provider, from a fresh entry or from a stale one.
C33_BalancesOfOwnKey ==
    resp.ep = "firiBalances" =>
        \A it \in resp.items :
            it.data # "none" => it.data = BalancesOf(FiriApiKey(resp.p, configured))

\* The symbols of a list as a set.
SymbolsOf(list) == {list[i] : i \in DOMAIN list}

\* C34: in a previous-closes request for several symbols each symbol is
\* handled on its own: the settling of one symbol's fetch leaves the cache
\* entries and the results of the other symbols as they were, a failed
\* fetch writes nothing and does not end the request, and the response is a
\* success whose data holds exactly the symbols that had a fresh entry or
\* whose fetch returned a previous close.
C34_SymbolsIndependent ==
    [][\A c \in Slots :
          (req[c].phase = "provider" /\ req[c].ep = "previousCloses"
              /\ req'[c] # req[c]) =>
              LET s == "previousClosesCache"
                  ends == req'[c] = Idle
                  after == IF ends THEN resp'.items ELSE req'[c].items
                  new == {it \in after : it.key = req[c].key}
              IN  /\ DOMAIN store'[s] \ {req[c].key} = DOMAIN store[s] \ {req[c].key}
                  /\ \A k \in DOMAIN store[s] \ {req[c].key} : store'[s][k] = store[s][k]
                  /\ req[c].items \subseteq after
                  /\ new # {}
                  /\ \A it \in new : it.outcome # "ok" => store' = store
                  /\ ~ends => (req'[c].phase = "provider" /\ req'[c].p = req[c].p)
                  /\ ends =>
                        /\ resp'.ep = "previousCloses"
                        /\ resp'.success = "true" /\ resp'.status = 200
                        /\ {it.key : it \in resp'.items} = SymbolsOf(Split(req[c].p.subject))
                        /\ \A it \in resp'.items :
                              it.data # "none" <=> (it.path = "hit" \/ it.outcome = "ok")]_vars

\* A request for two symbols was answered with the previous close of one
\* while the fetch for the other had failed.
C34_Witness ==
    /\ resp.ep = "previousCloses"
    /\ resp.success = "true"
    /\ \E a \in resp.items : a.outcome = "fail" /\ a.data = "none"
    /\ \E b \in resp.items : b.outcome = "ok" /\ b.data # "none"

\* C35: while the crypto tab is not the active tab no Binance WebSocket is
\* connecting or open: leaving the tab closes the socket, and neither the
\* reconnect after a close nor the balance refresh opens one until the tab
\* is shown again.
C35_NoSocketOffTab ==
    tab # "crypto" => \A s \in 1..MaxSockets : readyState[s] \notin Live

\* C36: at any time at most one Binance WebSocket is connecting or open,
\* at most one reconnect timer is pending, and binanceWs is null or refers
\* to the connection that is live.
C36_OneSocketOneTimer ==
    /\ Cardinality({s \in 1..MaxSockets : readyState[s] \in Live}) <= 1
    /\ Cardinality({t \in 1..MaxTimers : timerState[t] = "pending"}) <= 1
    /\ binanceWs # 0 => readyState[binanceWs] \in Live

\* C37: the holdings poller stores and renders positions of the selected
\* account only: whenever positions are stored or rendered they are those
\* of the account that is current then, and a poll that is scheduled is for
\* the current account.
C37_PositionsOfCurrentAccount ==
    [][/\ currentPositions' # currentPositions => currentPositions' = currentAccountId'
       /\ rendered' # rendered => rendered' = currentAccountId'
       /\ \A t \in 1..MaxPolls :
            (pollState'[t] \in Accounts /\ pollState'[t] # pollState[t])
                => pollState'[t] = currentAccountId']_vars

====
